---------------------------- MODULE Spec2Model ----------------------------
(***************************************************************************)
(* Model of src/sun_position.py: the terrain-occlusion lookup, the window  *)
(* geometry, the glare-risk model, the glare-to-blind mapping, the azimuth *)
(* tail of sun_position, the horizon builder and the blind actuator.       *)
(*                                                                         *)
(* Numbers.  The program computes in floating point; the model computes    *)
(* the same expressions exactly, on rationals held as integers:            *)
(*   - an angle (azimuth, altitude, field of view, horizon angle) is an    *)
(*     integer count of 1/Unit degree;                                     *)
(*   - altitude_factor and entry_factor are numerators over FactorDen;     *)
(*   - the unrounded glare risk is a numerator over RiskDen;               *)
(*   - a value that went through round(x, 1) is an integer count of        *)
(*     tenths (glare_risk 60.0 is 600);                                    *)
(*   - an open percentage and a step threshold are integers;               *)
(*   - in the horizon builder an elevation is an integer count of metres,  *)
(*     an elevation difference of decimetres, an atan2 angle of            *)
(*     thousandths of a degree, a stored horizon angle of tenths;          *)
(*   - in the azimuth tail cos_az is a count of halves, so that acos is    *)
(*     exact at every value drawn.                                         *)
(* round() is Python's: to the nearest, a tie to the even neighbour.  The   *)
(* model's ties are ties of the exact value; in floating point a decimal   *)
(* tie such as 63.25 is decided by the binary value next to it, and int()   *)
(* of a value that is exactly an integer may see the float just below it.  *)
(***************************************************************************)
EXTENDS Integers, Sequences, FiniteSets

VARIABLES
    horizon_file,          \* content of HORIZON_PROFILE_FILE on disk
    HORIZON_OBSTRUCTIONS,  \* module global: list of <<az_start, az_end, min_alt>>
    WINDOW_AZIMUTH,        \* module global: default window_az of analyze_glare
    DAY_BLIND_MIN_OPEN,    \* module globals of the blind mapping
    DAY_BLIND_MAX_OPEN,
    GLARE_THRESHOLD_LOW,
    GLARE_THRESHOLD_HIGH,
    GLARE_RESPONSE_CURVE,
    BLIND_STEPS,           \* module global: list of <<threshold, name>>
    terrain_call,          \* last call of is_sun_blocked_by_terrain and its result
    window_call,           \* last call of can_sun_enter_window and its result
    glare_call,            \* last call of analyze_glare and its result
    blind_call,            \* last call of calculate_day_blind and its outcome
    blind_prev,            \* the call of calculate_day_blind before that one
    step_call,             \* last call of get_blind_step and its result
    glare_prev,            \* the call of analyze_glare before glare_call
    angle_call,            \* last call of angle_difference, both argument orders
    azimuth_call,          \* the azimuth tail of sun_position and its result
    shortcuts_command,     \* what running the `shortcuts` command does
    shortcut_call,         \* last call of run_blind_shortcut and its outcome
    ELEVATION,             \* module global: observer elevation, feet
    elevation_service,     \* the elevation each sample point has at the API
    all_elevations,        \* calculate_horizon_profile: the list being extended
    batch_i,               \* calculate_horizon_profile: i of the batching loop
    profile_pc,            \* calculate_horizon_profile: where the call stands
    profile_ret            \* calculate_horizon_profile: its outcome

vars == <<horizon_file, HORIZON_OBSTRUCTIONS, WINDOW_AZIMUTH, DAY_BLIND_MIN_OPEN,
          DAY_BLIND_MAX_OPEN, GLARE_THRESHOLD_LOW, GLARE_THRESHOLD_HIGH,
          GLARE_RESPONSE_CURVE, BLIND_STEPS, terrain_call, window_call,
          glare_call, blind_call, blind_prev, step_call, glare_prev,
          angle_call, azimuth_call, shortcuts_command, shortcut_call, ELEVATION,
          elevation_service, all_elevations, batch_i, profile_pc, profile_ret>>

config_vars == <<horizon_file, HORIZON_OBSTRUCTIONS, WINDOW_AZIMUTH,
                 DAY_BLIND_MIN_OPEN, DAY_BLIND_MAX_OPEN, GLARE_THRESHOLD_LOW,
                 GLARE_THRESHOLD_HIGH, GLARE_RESPONSE_CURVE, BLIND_STEPS>>

\* The variables of the sweep, the angle helper, the azimuth tail and the
\* blind actuator.
helper_vars == <<glare_prev, angle_call, azimuth_call, shortcuts_command,
                 shortcut_call>>

\* The variables of calculate_horizon_profile.
profile_vars == <<ELEVATION, elevation_service, all_elevations, batch_i,
                  profile_pc, profile_ret>>

---------------------------------------------------------------------------
(* Bounds of the model *)

\* Resolution of angles: an angle is an integer count of 1/Unit degree.
Unit == 20

\* Longest list of manual obstructions drawn for HORIZON_OBSTRUCTIONS.
MaxObstructions == 2

\* The azimuth_step argument of calculate_horizon_profile (5 by default):
\* the model samples the buckets 0, 90, 180 and 270.
AzimuthStep == 90

\* batch_size of calculate_horizon_profile, 100 in the source, scaled down
\* with the number of sample points so that the loop still makes several
\* batches and a last, shorter one.
BatchSize == 3

---------------------------------------------------------------------------
(* Arithmetic helpers *)

Deg(d) == d * Unit

\* h half-degrees, as an angle
HalfDeg(h) == (h * Unit) \div 2

Abs(x) == IF x < 0 THEN -x ELSE x

Min(a, b) == IF a <= b THEN a ELSE b

Max(a, b) == IF a >= b THEN a ELSE b

\* Python's round(n / d) for d > 0: nearest integer, a tie to the even one.
PyRound(n, d) ==
    LET q == n \div d
        r == n % d
    IN  IF 2 * r < d THEN q
        ELSE IF 2 * r > d THEN q + 1
        ELSE IF q % 2 = 0 THEN q ELSE q + 1

\* Python's str() of a non-negative int: its decimal digits.
RECURSIVE Str(_)
Str(n) == IF n < 10 THEN <<n>> ELSE Append(Str(n \div 10), n % 10)

\* The mapping with no key: Python's {}.
EmptyDict == [k \in {} |-> 0]

\* The dict {str(p[1]): p[2] for p in pairs}; pairs has one pair per key.
DictOf(pairs) ==
    [k \in {Str(p[1]) : p \in pairs} |-> (CHOOSE p \in pairs : Str(p[1]) = k)[2]]

---------------------------------------------------------------------------
(* Terrain occlusion: load_horizon_profile, is_sun_blocked_by_terrain *)

\* Python's None for the Optional[Dict] result of load_horizon_profile.
NoProfile == [is_none |-> TRUE, dict |-> EmptyDict]

\* horizon_file.kind: "absent" (no file), "unreadable" (open or json.load
\* raises), "json" (a JSON object; has_horizon says whether it holds the key
\* "horizon", horizon is that sub-mapping).
load_horizon_profile ==
    IF horizon_file.kind = "json"
    THEN [is_none |-> FALSE,
          dict |-> IF horizon_file.has_horizon THEN horizon_file.horizon
                   ELSE EmptyDict]
    ELSE NoProfile

\* Python truth value of the loaded profile: None and {} are both false.
Truthy(profile) == ~profile.is_none /\ DOMAIN profile.dict # {}

\* az_key = str(round(sun_az / 5) * 5 % 360)
az_key(sun_az) == Str((PyRound(sun_az, 5 * Unit) * 5) % 360)

\* One manual obstruction: the azimuth range test, ranges may wrap at 360.
in_range(ob, sun_az) ==
    IF ob[1] <= ob[2]
    THEN ob[1] <= sun_az /\ sun_az <= ob[2]
    ELSE sun_az >= ob[1] \/ sun_az <= ob[2]

\* The for loop over HORIZON_OBSTRUCTIONS from index i on.
RECURSIVE scan_obstructions(_, _, _, _)
scan_obstructions(obs, i, sun_az, sun_alt) ==
    IF i > Len(obs) THEN FALSE
    ELSE IF in_range(obs[i], sun_az) /\ sun_alt < obs[i][3] THEN TRUE
    ELSE scan_obstructions(obs, i + 1, sun_az, sun_alt)

\* Mutant: the profile does not decide; a missed lookup falls to the list.
is_sun_blocked_by_terrain_fallthrough(sun_az, sun_alt) ==
    LET horizon == load_horizon_profile
    IN  IF Truthy(horizon) /\ az_key(sun_az) \in DOMAIN horizon.dict
           /\ sun_alt < horizon.dict[az_key(sun_az)]
        THEN TRUE
        ELSE scan_obstructions(HORIZON_OBSTRUCTIONS, 1, sun_az, sun_alt)

\* Mutant: the scan stops at the first obstruction whose range holds sun_az.
is_sun_blocked_by_terrain_first_range(sun_az, sun_alt) ==
    LET horizon == load_horizon_profile
        hits == {i \in 1..Len(HORIZON_OBSTRUCTIONS) :
                    in_range(HORIZON_OBSTRUCTIONS[i], sun_az)}
    IN  IF Truthy(horizon) /\ az_key(sun_az) \in DOMAIN horizon.dict
        THEN sun_alt < horizon.dict[az_key(sun_az)]
        ELSE IF hits = {} THEN FALSE
        ELSE sun_alt < HORIZON_OBSTRUCTIONS[CHOOSE i \in hits :
                                               \A j \in hits : i <= j][3]

is_sun_blocked_by_terrain(sun_az, sun_alt) ==
    LET horizon == load_horizon_profile
    IN  IF Truthy(horizon) /\ az_key(sun_az) \in DOMAIN horizon.dict
        THEN sun_alt < horizon.dict[az_key(sun_az)]
        ELSE scan_obstructions(HORIZON_OBSTRUCTIONS, 1, sun_az, sun_alt)

---------------------------------------------------------------------------
(* Window geometry: angle_difference, can_sun_enter_window *)

\* Mutant: the difference is not reduced modulo 360.
angle_difference_no_wrap(a1, a2) ==
    LET diff == Abs(a1 - a2)
    IN  Min(diff, Deg(360) - diff)

angle_difference(a1, a2) ==
    LET diff == Abs(a1 - a2) % Deg(360)
    IN  Min(diff, Deg(360) - diff)

\* Mutant: the field-of-view boundary is exclusive.
can_sun_enter_window_strict(sun_az, sun_alt, window_az, window_fov) ==
    IF sun_alt <= 0
    THEN [can_enter |-> FALSE, entry_angle |-> Deg(180)]
    ELSE [can_enter |-> 2 * angle_difference(sun_az, window_az) < window_fov,
          entry_angle |-> angle_difference(sun_az, window_az)]

\* angle_from_window <= window_fov / 2 is compared as 2 * angle <= fov.
can_sun_enter_window(sun_az, sun_alt, window_az, window_fov) ==
    IF sun_alt <= 0
    THEN [can_enter |-> FALSE, entry_angle |-> Deg(180)]
    ELSE [can_enter |-> 2 * angle_difference(sun_az, window_az) <= window_fov,
          entry_angle |-> angle_difference(sun_az, window_az)]

\* The default of the parameter window_fov, in degrees.
DefaultFov == 140

---------------------------------------------------------------------------
(* Solar azimuth: the tail of sun_position *)

\* cos_az is a count of halves.  cos_az = max(-1, min(1, cos_az))
clamp_cos(cos_az) == Max(-2, Min(2, cos_az))

\* math.degrees(math.acos(c)) at the cosines -1, -1/2, 0, 1/2, 1, in degrees.
acos_degrees(c) ==
    CASE c = 2 -> 0
      [] c = 1 -> 60
      [] c = 0 -> 90
      [] c = -1 -> 120
      [] c = -2 -> 180

\* math.sin(ha) > 0 for an hour angle in 1/Unit degree, not normalised.
sin_positive(ha) ==
    LET r == ha % Deg(360)
    IN  0 < r /\ r < Deg(180)

\* Lines 218-226: clamp, acos, and the reflection for a positive sin(ha).
sun_azimuth(cos_az, ha) ==
    LET azimuth == Deg(acos_degrees(clamp_cos(cos_az)))
    IN  IF sin_positive(ha) THEN Deg(360) - azimuth ELSE azimuth

---------------------------------------------------------------------------
(* Glare risk: analyze_glare *)

\* altitude_factor and entry_factor are numerators over FactorDen.
FactorDen == 60 * Unit

\* The unrounded glare_risk is a numerator over RiskDen (x 1.3 is x 13 / 10).
RiskDen == 10 * FactorDen

\* Mutant: the ramp between 10 and 25 degrees rises with the altitude.
altitude_factor_rising(sun_alt) ==
    IF sun_alt < Deg(10) THEN FactorDen
    ELSE IF sun_alt < Deg(25) THEN 4 * (sun_alt - Deg(10))
    ELSE 0

\* 1.0 below 10 degrees, (25 - sun_alt) / 15 below 25 degrees, else 0.0
altitude_factor(sun_alt) ==
    IF sun_alt < Deg(10) THEN FactorDen
    ELSE IF sun_alt < Deg(25) THEN 4 * (Deg(25) - sun_alt)
    ELSE 0

\* (60 - entry_angle) / 60 below 60 degrees, else 0.0
entry_factor(entry_angle) ==
    IF entry_angle < Deg(60) THEN Deg(60) - entry_angle ELSE 0

\* Mutant: the boost is not capped and the result is not clamped.
glare_risk_value_unclamped(sun_alt, entry_angle) ==
    LET af == altitude_factor(sun_alt)
        ef == entry_factor(entry_angle)
        weighted == 500 * (af + ef)
    IN  IF 2 * af > FactorDen /\ 2 * ef > FactorDen
        THEN (weighted * 13) \div 10
        ELSE weighted

\* Mutant: the boost also applies when a factor equals 0.5.
glare_risk_value_boost_at_half(sun_alt, entry_angle) ==
    LET af == altitude_factor(sun_alt)
        ef == entry_factor(entry_angle)
        weighted == 500 * (af + ef)
        boosted == IF 2 * af >= FactorDen /\ 2 * ef >= FactorDen
                   THEN Min(100 * RiskDen, (weighted * 13) \div 10)
                   ELSE weighted
    IN  Min(100 * RiskDen, Max(0, boosted))

\* glare_risk before it is classified and rounded (numerator over RiskDen):
\* 100 * (0.5 * altitude_factor + 0.5 * entry_factor), x 1.3 capped at 100
\* when both factors exceed 0.5, then clamped to [0, 100].
glare_risk_value(sun_alt, entry_angle) ==
    LET af == altitude_factor(sun_alt)
        ef == entry_factor(entry_angle)
        weighted == 500 * (af + ef)
        boosted == IF 2 * af > FactorDen /\ 2 * ef > FactorDen
                   THEN Min(100 * RiskDen, (weighted * 13) \div 10)
                   ELSE weighted
    IN  Min(100 * RiskDen, Max(0, boosted))

\* status and recommendation, decided on the unrounded glare_risk.
classify(glare_risk) ==
    IF glare_risk > 60 * RiskDen
    THEN [status |-> "high_glare", recommendation |-> "blinds_closed"]
    ELSE IF glare_risk > 35 * RiskDen
    THEN [status |-> "moderate_glare", recommendation |-> "blinds_partial"]
    ELSE [status |-> "low_glare", recommendation |-> "blinds_open"]

\* The dict of a short-circuit return; entry_angle in tenths of a degree.
ShortCircuit(status, entry_angle) ==
    [status |-> status, can_enter_window |-> FALSE, entry_angle |-> entry_angle,
     glare_risk |-> 0, recommendation |-> "blinds_open"]

\* The dict of the final return: round(x, 1) values are counts of tenths.
GlareDict(sun_alt, entry_angle) ==
    LET glare_risk == glare_risk_value(sun_alt, entry_angle)
    IN  [status |-> classify(glare_risk).status,
         can_enter_window |-> TRUE,
         entry_angle |-> PyRound(10 * entry_angle, Unit),
         sun_altitude |-> PyRound(10 * sun_alt, Unit),
         glare_risk |-> PyRound(10 * glare_risk, RiskDen),
         recommendation |-> classify(glare_risk).recommendation]

\* Mutant: the window test comes before the terrain test.
analyze_glare_window_first(sun_az, sun_alt, window_az) ==
    LET w == can_sun_enter_window(sun_az, sun_alt, window_az, Deg(DefaultFov))
    IN  IF sun_alt <= 0 THEN ShortCircuit("night", 0)
        ELSE IF ~w.can_enter
        THEN ShortCircuit("no_direct_sun", PyRound(10 * w.entry_angle, Unit))
        ELSE IF is_sun_blocked_by_terrain(sun_az, sun_alt)
        THEN ShortCircuit("blocked_by_terrain", 0)
        ELSE GlareDict(sun_alt, w.entry_angle)

analyze_glare(sun_az, sun_alt, window_az) ==
    LET w == can_sun_enter_window(sun_az, sun_alt, window_az, Deg(DefaultFov))
    IN  IF sun_alt <= 0 THEN ShortCircuit("night", 0)
        ELSE IF is_sun_blocked_by_terrain(sun_az, sun_alt)
        THEN ShortCircuit("blocked_by_terrain", 0)
        ELSE IF ~w.can_enter
        THEN ShortCircuit("no_direct_sun", PyRound(10 * w.entry_angle, Unit))
        ELSE GlareDict(sun_alt, w.entry_angle)

---------------------------------------------------------------------------
(* Actuation mapping: calculate_day_blind, get_blind_step *)

\* int() of the rational n / d, d > 0: truncation toward zero.
Trunc(n, d) == IF n >= 0 THEN n \div d ELSE -((-n) \div d)

\* The least c in 0..hi with c * c * d >= n, for 0 <= n <= hi * hi * d:
\* ceil(sqrt(n / d)).
CeilSqrt(n, d, hi) ==
    CHOOSE c \in 0..hi :
        /\ c * c * d >= n
        /\ c = 0 \/ (c - 1) * (c - 1) * d < n

\* The greatest c in 0..hi with c * c * d <= n: floor(sqrt(n / d)).
FloorSqrt(n, d, hi) ==
    CHOOSE c \in 0..hi :
        /\ c * c * d <= n
        /\ (c + 1) * (c + 1) * d > n

\* int(DAY_BLIND_MAX_OPEN - normalized * open_range), where normalized is
\* (n / d) ** GLARE_RESPONSE_CURVE and 0 <= n <= d, d > 0.  The curve is named
\* by its float: "1.0" (the power is skipped), "2.0", "0.5".  With the open
\* bounds in [0, 100] the value under sqrt's int() is never negative.
interpolate(n, d, max_open, open_range, curve) ==
    IF curve = "1.0" THEN Trunc(max_open * d - n * open_range, d)
    ELSE IF curve = "2.0"
    THEN Trunc(max_open * d * d - n * n * open_range, d * d)
    ELSE IF open_range >= 0
    THEN max_open - CeilSqrt(n * open_range * open_range, d, Abs(open_range))
    ELSE max_open + FloorSqrt(n * open_range * open_range, d, Abs(open_range))

\* The outcome of a call: a returned value or a raised exception.
Returned(v) == [outcome |-> "returned", ret |-> v]

Raised(e) == [outcome |-> e, ret |-> 0]

\* Mutant: below threshold_low the blinds are "fully open" at a literal 100.
calculate_day_blind_literal_open(glare_risk) ==
    LET glare_range == GLARE_THRESHOLD_HIGH - GLARE_THRESHOLD_LOW
        open_range == DAY_BLIND_MAX_OPEN - DAY_BLIND_MIN_OPEN
        n == glare_risk - 10 * GLARE_THRESHOLD_LOW
        d == 10 * Abs(glare_range)
        normalized == IF glare_range < 0 THEN Max(0, Min(d, -n))
                      ELSE Max(0, Min(d, n))
        day_open == interpolate(normalized, d, DAY_BLIND_MAX_OPEN, open_range,
                                GLARE_RESPONSE_CURVE)
    IN  IF glare_risk < 10 * GLARE_THRESHOLD_LOW
        THEN Returned(100)
        ELSE IF glare_range = 0 THEN Raised("ZeroDivisionError")
        ELSE Returned(Max(DAY_BLIND_MIN_OPEN, Min(DAY_BLIND_MAX_OPEN, day_open)))

\* glare_risk is a count of tenths; the thresholds and bounds are integers.
\* (glare_risk - LOW) / glare_range is the rational n / (10 * glare_range),
\* held with a positive denominator d and clamped to [0, 1].
calculate_day_blind(glare_risk) ==
    LET glare_range == GLARE_THRESHOLD_HIGH - GLARE_THRESHOLD_LOW
        open_range == DAY_BLIND_MAX_OPEN - DAY_BLIND_MIN_OPEN
        n == glare_risk - 10 * GLARE_THRESHOLD_LOW
        d == 10 * Abs(glare_range)
        normalized == IF glare_range < 0 THEN Max(0, Min(d, -n))
                      ELSE Max(0, Min(d, n))
        day_open == interpolate(normalized, d, DAY_BLIND_MAX_OPEN, open_range,
                                GLARE_RESPONSE_CURVE)
    IN  IF glare_risk < 10 * GLARE_THRESHOLD_LOW
        THEN Returned(DAY_BLIND_MAX_OPEN)
        ELSE IF glare_range = 0 THEN Raised("ZeroDivisionError")
        ELSE Returned(Max(DAY_BLIND_MIN_OPEN, Min(DAY_BLIND_MAX_OPEN, day_open)))

\* The loop over reversed(BLIND_STEPS), from index i down; then the default.
RECURSIVE scan_steps(_, _, _)
scan_steps(steps, i, day_open) ==
    IF i < 1 THEN steps[1][2]
    ELSE IF day_open >= steps[i][1] THEN steps[i][2]
    ELSE scan_steps(steps, i - 1, day_open)

\* The same loop without reversed(): from index i up.
RECURSIVE scan_steps_forward(_, _, _)
scan_steps_forward(steps, i, day_open) ==
    IF i > Len(steps) THEN steps[1][2]
    ELSE IF day_open >= steps[i][1] THEN steps[i][2]
    ELSE scan_steps_forward(steps, i + 1, day_open)

\* Mutant: the table is scanned in ascending order.
get_blind_step_ascending(day_open) == scan_steps_forward(BLIND_STEPS, 1, day_open)

get_blind_step(day_open) == scan_steps(BLIND_STEPS, Len(BLIND_STEPS), day_open)

---------------------------------------------------------------------------
(* Horizon builder: query_elevations, calculate_horizon_profile *)

\* Python's None in a list of elevations, and an elevation in metres.
NoElevation == [is_none |-> TRUE, m |-> 0]

Elevation(m) == [is_none |-> FALSE, m |-> m]

\* list(range(0, 360, azimuth_step))
Azimuths ==
    [k \in 1..((360 + AzimuthStep - 1) \div AzimuthStep) |-> (k - 1) * AzimuthStep]

\* The distances_km argument, in tenths of a kilometre: [0.1, 1.0].
distances_km == <<1, 10>>

\* point_info: one (azimuth, distance) per sample point, azimuth by azimuth.
point_info ==
    [i \in 1..(Len(Azimuths) * Len(distances_km)) |->
        <<Azimuths[((i - 1) \div Len(distances_km)) + 1],
          distances_km[((i - 1) % Len(distances_km)) + 1]>>]

\* sample_points: the destination point of each entry of point_info, named
\* by its position.
sample_points == [i \in 1..Len(point_info) |-> i]

\* observer_elev_m = observer_elevation * 0.3048, in decimetres.
observer_elev_m == (ELEVATION * 3048) \div 1000

\* math.degrees(math.atan2(elev_diff, dist_m)) in thousandths of a degree,
\* for elev_diff in decimetres and dist_m in metres, at the arguments the
\* model's elevations and distances produce.
AtanTable ==
    { <<-762, 100, -37307>>, <<-762, 1000, -4358>>, <<-562, 100, -29336>>,
      <<-562, 1000, -3217>>, <<-2, 100, -115>>, <<-2, 1000, -11>>,
      <<0, 100, 0>>, <<0, 1000, 0>>, <<38, 100, 2176>>,
      <<38, 1000, 218>>, <<200, 100, 11310>>, <<200, 1000, 1146>>,
      <<738, 100, 36427>>, <<738, 1000, 4221>>, <<760, 100, 37235>>,
      <<760, 1000, 4346>>, <<800, 100, 38660>>, <<800, 1000, 4574>>,
      <<1500, 100, 56310>>, <<1500, 1000, 8531>>, <<2238, 100, 65924>>,
      <<2238, 1000, 12615>>, <<3000, 100, 71565>>, <<3000, 1000, 16699>>,
      <<10238, 100, 84421>>, <<10238, 1000, 45674>>, <<11000, 100, 84806>>,
      <<11000, 1000, 47726>> }

atan2_degrees(elev_diff, dist_m) ==
    (CHOOSE t \in AtanTable : t[1] = elev_diff /\ t[2] = dist_m)[3]

\* query_elevations(locations).  response.kind is "ok" (the API answered,
\* its "results" list holds response.count entries, in order) or the
\* exception urlopen / json.loads raised.
query_elevations(locations, response) ==
    IF locations = <<>> THEN <<>>
    ELSE IF response.kind = "ok"
    THEN [j \in 1..response.count |-> elevation_service[locations[j]]]
    ELSE [j \in 1..Len(locations) |-> NoElevation]

\* The inner loop for one azimuth, from index i on: the largest angle so far,
\* or IndexError at all_elevations[i].
RECURSIVE scan_points(_, _, _)
scan_points(azimuth, i, max_angle) ==
    IF i > Len(point_info) THEN [raised |-> FALSE, max_angle |-> max_angle]
    ELSE IF point_info[i][1] # azimuth THEN scan_points(azimuth, i + 1, max_angle)
    ELSE IF i > Len(all_elevations) THEN [raised |-> TRUE, max_angle |-> max_angle]
    ELSE IF all_elevations[i].is_none THEN scan_points(azimuth, i + 1, max_angle)
    ELSE scan_points(azimuth, i + 1,
             Max(max_angle,
                 atan2_degrees(10 * all_elevations[i].m - observer_elev_m,
                               100 * point_info[i][2])))

\* The loop over the azimuths: the horizon dict, values in tenths of a
\* degree (round(max(0, max_angle), 1)), or the IndexError of the loop.
build_horizon ==
    IF \E k \in 1..Len(Azimuths) : scan_points(Azimuths[k], 1, 0).raised
    THEN [outcome |-> "IndexError", horizon |-> EmptyDict]
    ELSE [outcome |-> "returned",
          horizon |-> DictOf({<<Azimuths[k],
                                PyRound(Max(0, scan_points(Azimuths[k], 1, 0).max_angle),
                                        100)>> : k \in 1..Len(Azimuths)})]

---------------------------------------------------------------------------
(* Actuator: run_blind_shortcut *)

\* VALID_STEPS = {s["name"] for s in _config["blind_steps"]}
VALID_STEPS == {BLIND_STEPS[i][2] : i \in 1..Len(BLIND_STEPS)}

\* str.strip() of the stderr texts the model draws.
Strip(text) ==
    CASE text = "" -> ""
      [] text = " \n" -> ""
      [] text = "denied\n" -> "denied"

\* The call returned (success, message); invoked: subprocess.run was called.
ShortcutReturn(invoked, success, message) ==
    [invoked |-> invoked, outcome |-> "returned", success |-> success,
     message |-> message]

\* The call let an exception out.
ShortcutRaise(e) ==
    [invoked |-> TRUE, outcome |-> e, success |-> FALSE, message |-> <<>>]

\* Mutant: only TimeoutExpired and FileNotFoundError are caught.
run_blind_shortcut_two_handlers(step, dry_run) ==
    IF step \notin VALID_STEPS
    THEN ShortcutReturn(FALSE, FALSE, <<"Unknown step: ", step>>)
    ELSE IF dry_run
    THEN ShortcutReturn(FALSE, TRUE, <<"[DRY RUN] Would run: ", step>>)
    ELSE IF shortcuts_command.kind = "exit"
    THEN IF shortcuts_command.returncode = 0
         THEN ShortcutReturn(TRUE, TRUE, <<"Ran with level ", step>>)
         ELSE ShortcutReturn(TRUE, FALSE,
                  <<"Shortcut failed: ",
                    IF Strip(shortcuts_command.stderr) # ""
                    THEN Strip(shortcuts_command.stderr) ELSE "unknown error">>)
    ELSE IF shortcuts_command.kind = "TimeoutExpired"
    THEN ShortcutReturn(TRUE, FALSE, <<"Shortcut timed out">>)
    ELSE IF shortcuts_command.kind = "FileNotFoundError"
    THEN ShortcutReturn(TRUE, FALSE, <<"shortcuts command not found">>)
    ELSE ShortcutRaise(shortcuts_command.kind)

\* shortcuts_command.kind: "exit" (the command ran and ended with returncode
\* and stderr) or the exception subprocess.run raises.
run_blind_shortcut(step, dry_run) ==
    IF step \notin VALID_STEPS
    THEN ShortcutReturn(FALSE, FALSE, <<"Unknown step: ", step>>)
    ELSE IF dry_run
    THEN ShortcutReturn(FALSE, TRUE, <<"[DRY RUN] Would run: ", step>>)
    ELSE IF shortcuts_command.kind = "exit"
    THEN IF shortcuts_command.returncode = 0
         THEN ShortcutReturn(TRUE, TRUE, <<"Ran with level ", step>>)
         ELSE ShortcutReturn(TRUE, FALSE,
                  <<"Shortcut failed: ",
                    IF Strip(shortcuts_command.stderr) # ""
                    THEN Strip(shortcuts_command.stderr) ELSE "unknown error">>)
    ELSE IF shortcuts_command.kind = "TimeoutExpired"
    THEN ShortcutReturn(TRUE, FALSE, <<"Shortcut timed out">>)
    ELSE IF shortcuts_command.kind = "FileNotFoundError"
    THEN ShortcutReturn(TRUE, FALSE, <<"shortcuts command not found">>)
    ELSE ShortcutReturn(TRUE, FALSE, <<"Error: ", shortcuts_command.kind>>)

---------------------------------------------------------------------------
(* Idle values of the call records *)

NoTerrainCall == [called |-> FALSE, sun_az |-> 0, sun_alt |-> 0, ret |-> FALSE]

NoWindowCall ==
    [called |-> FALSE, sun_az |-> 0, sun_alt |-> 0, window_az |-> 0,
     window_fov |-> 0, can_enter |-> FALSE, entry_angle |-> 0]

NoGlareCall ==
    [called |-> FALSE, sun_az |-> 0, sun_alt |-> 0, window_az |-> 0,
     ret |-> [status |-> "none"]]

NoBlindCall == [called |-> FALSE, glare_risk |-> 0, outcome |-> "none", ret |-> 0]

BlindCall(glare_risk, r) ==
    [called |-> TRUE, glare_risk |-> glare_risk, outcome |-> r.outcome,
     ret |-> r.ret]

NoStepCall == [called |-> FALSE, day_open |-> 0, ret |-> "none"]

DefaultBlindConfig ==
    /\ DAY_BLIND_MIN_OPEN = 10
    /\ DAY_BLIND_MAX_OPEN = 100
    /\ GLARE_THRESHOLD_LOW = 20
    /\ GLARE_THRESHOLD_HIGH = 100
    /\ GLARE_RESPONSE_CURVE = "1.0"
    /\ BLIND_STEPS = <<<<0, "severe">>, <<45, "high">>, <<60, "moderate">>,
                       <<80, "low">>, <<95, "none">>>>

NoAngleCall == [called |-> FALSE, a1 |-> 0, a2 |-> 0, ret |-> 0, ret_swapped |-> 0]

NoAzimuthCall == [called |-> FALSE, cos_az |-> 0, ha |-> 0, azimuth |-> 0]

NoShortcutCall ==
    [called |-> FALSE, step |-> "", dry_run |-> FALSE, invoked |-> FALSE,
     outcome |-> "none", success |-> FALSE, message |-> <<>>]

\* calculate_horizon_profile has not been called.
NoProfileCall ==
    /\ all_elevations = <<>>
    /\ batch_i = 0
    /\ profile_pc = "idle"
    /\ profile_ret = [outcome |-> "none", horizon |-> EmptyDict]

NoCalls ==
    /\ terrain_call = NoTerrainCall
    /\ window_call = NoWindowCall
    /\ glare_call = NoGlareCall
    /\ blind_call = NoBlindCall
    /\ blind_prev = NoBlindCall
    /\ step_call = NoStepCall
    /\ glare_prev = NoGlareCall
    /\ angle_call = NoAngleCall
    /\ azimuth_call = NoAzimuthCall
    /\ shortcut_call = NoShortcutCall
    /\ NoProfileCall

\* The surroundings of a run that uses neither the `shortcuts` command nor
\* the elevation API: the command succeeds, the observer is at sea level.
DefaultSurroundings ==
    /\ shortcuts_command = [kind |-> "exit", returncode |-> 0, stderr |-> ""]
    /\ ELEVATION = 0
    /\ elevation_service = <<>>

---------------------------------------------------------------------------
(* Specification of the terrain check *)

\* Horizon profile files: none, unreadable, without the key, empty, sparse
\* (the 5-degree buckets 0, 10, 90, 355) and complete (all 72 buckets).
TerrainFiles ==
    { [kind |-> "absent", has_horizon |-> FALSE, horizon |-> EmptyDict],
      [kind |-> "unreadable", has_horizon |-> FALSE, horizon |-> EmptyDict],
      [kind |-> "json", has_horizon |-> FALSE, horizon |-> EmptyDict],
      [kind |-> "json", has_horizon |-> TRUE, horizon |-> EmptyDict],
      [kind |-> "json", has_horizon |-> TRUE,
       horizon |-> DictOf({<<90, Deg(15)>>})],
      [kind |-> "json", has_horizon |-> TRUE,
       horizon |-> DictOf({<<0, Deg(10)>>, <<10, Deg(8)>>, <<90, Deg(15)>>,
                           <<355, Deg(5)>>})],
      [kind |-> "json", has_horizon |-> TRUE,
       horizon |-> DictOf({<<5 * b, Deg(8)>> : b \in 0..71})] }

\* Manual obstructions: a plain range, a range across north, an overlap.
ObstructionChoices ==
    { <<Deg(90), Deg(160), Deg(12)>>,
      <<Deg(300), Deg(30), Deg(20)>>,
      <<Deg(150), Deg(200), Deg(20)>> }

ObstructionLists ==
    UNION {[1..n -> ObstructionChoices] : n \in 0..MaxObstructions}

\* Sun azimuths: every 2.5 degrees of [0, 360], and 91 and 359.95 degrees.
TerrainAz == {HalfDeg(5 * k) : k \in 0..144} \cup {Deg(91), Deg(360) - 1}

\* Sun altitudes around the horizon angles and min_altitudes in use.
TerrainAlt ==
    {Deg(-5), 0, Deg(5), Deg(8) - 1, Deg(8), Deg(10), Deg(12) - 1, Deg(12),
     Deg(15), Deg(20) - 1, Deg(20), Deg(30)}

InitTerrain ==
    /\ horizon_file \in TerrainFiles
    /\ HORIZON_OBSTRUCTIONS \in ObstructionLists
    /\ WINDOW_AZIMUTH = Deg(90)
    /\ DefaultBlindConfig
    /\ DefaultSurroundings
    /\ NoCalls

\* One run of the program makes the call once (the process computes and exits).
IsSunBlockedByTerrain ==
    /\ ~terrain_call.called
    /\ \E sun_az \in TerrainAz, sun_alt \in TerrainAlt :
        /\ terrain_call' = [called |-> TRUE, sun_az |-> sun_az,
                            sun_alt |-> sun_alt,
                            ret |-> is_sun_blocked_by_terrain(sun_az, sun_alt)]
        /\ UNCHANGED <<config_vars, window_call, glare_call, blind_call,
                       blind_prev, step_call, helper_vars, profile_vars>>

NextTerrain == IsSunBlockedByTerrain

SpecTerrain == InitTerrain /\ [][NextTerrain]_vars

---------------------------------------------------------------------------
(* Specification of the window test *)

\* Azimuths every 5 degrees of [0, 360], and 0.05 degree beside 160.
WindowSunAz == {Deg(5 * k) : k \in 0..72} \cup {Deg(160) - 1, Deg(160) + 1}

WindowAz == {0, Deg(90), Deg(176), Deg(270), Deg(350)}

WindowAlt == {Deg(-5), 0, 1, Deg(8), Deg(45)}

WindowFov == {0, Deg(90), Deg(DefaultFov), Deg(360)}

InitWindow ==
    /\ horizon_file = [kind |-> "absent", has_horizon |-> FALSE,
                       horizon |-> EmptyDict]
    /\ HORIZON_OBSTRUCTIONS = <<>>
    /\ WINDOW_AZIMUTH \in WindowAz
    /\ DefaultBlindConfig
    /\ DefaultSurroundings
    /\ NoCalls

CanSunEnterWindow ==
    /\ ~window_call.called
    /\ \E sun_az \in WindowSunAz, sun_alt \in WindowAlt, window_fov \in WindowFov :
        LET w == can_sun_enter_window(sun_az, sun_alt, WINDOW_AZIMUTH, window_fov)
        IN  /\ window_call' = [called |-> TRUE, sun_az |-> sun_az,
                               sun_alt |-> sun_alt, window_az |-> WINDOW_AZIMUTH,
                               window_fov |-> window_fov,
                               can_enter |-> w.can_enter,
                               entry_angle |-> w.entry_angle]
            /\ UNCHANGED <<config_vars, terrain_call, glare_call, blind_call,
                           blind_prev, step_call, helper_vars, profile_vars>>

NextWindow == CanSunEnterWindow

SpecWindow == InitWindow /\ [][NextWindow]_vars

---------------------------------------------------------------------------
(* Specification of the glare analysis *)

GlareFiles ==
    { [kind |-> "absent", has_horizon |-> FALSE, horizon |-> EmptyDict],
      [kind |-> "json", has_horizon |-> TRUE, horizon |-> EmptyDict],
      [kind |-> "json", has_horizon |-> TRUE,
       horizon |-> DictOf({<<90, Deg(15)>>, <<135, Deg(3)>>, <<270, Deg(15)>>})] }

GlareObstructionLists == {<<>>, <<<<Deg(90), Deg(160), Deg(12)>>>>}

\* Every 0.05 degree of [85, 165] degrees, and every 15 degrees of the circle.
GlareAz == Deg(85)..Deg(165) \cup {Deg(15 * k) : k \in 0..24}

GlareAlt ==
    {Deg(-5), 0, 1, Deg(5), Deg(10) - 1, Deg(10), Deg(12), HalfDeg(35) - 1,
     HalfDeg(35), HalfDeg(35) + 1, Deg(20), Deg(25) - 1, Deg(25), Deg(30),
     Deg(60)}

InitGlare ==
    /\ horizon_file \in GlareFiles
    /\ HORIZON_OBSTRUCTIONS \in GlareObstructionLists
    /\ WINDOW_AZIMUTH \in {Deg(90), Deg(350)}
    /\ DefaultBlindConfig
    /\ DefaultSurroundings
    /\ NoCalls

\* Callers pass (az, alt): window_az is its default, WINDOW_AZIMUTH.
AnalyzeGlare ==
    /\ ~glare_call.called
    /\ \E sun_az \in GlareAz, sun_alt \in GlareAlt :
        /\ glare_call' = [called |-> TRUE, sun_az |-> sun_az, sun_alt |-> sun_alt,
                          window_az |-> WINDOW_AZIMUTH,
                          ret |-> analyze_glare(sun_az, sun_alt, WINDOW_AZIMUTH)]
        /\ UNCHANGED <<config_vars, terrain_call, window_call, blind_call,
                       blind_prev, step_call, helper_vars, profile_vars>>

NextGlare == AnalyzeGlare

SpecGlare == InitGlare /\ [][NextGlare]_vars

---------------------------------------------------------------------------
(* Specification of the altitude sweep: analyze_glare twice at one azimuth *)

\* Azimuths every 5 degrees within 70 degrees of the window at 90, and
\* beside the entry angles 30 (entry_factor 0.5) and 60.
SweepAz ==
    {Deg(90 + 5 * k) : k \in -14..14}
        \cup {Deg(120) - 1, Deg(120) + 1, Deg(150) - 1, Deg(150) + 1}

\* Altitudes: 0.05 degree, every degree of [0, 27], and beside 17.5 degrees
\* (altitude_factor 0.5).
SweepAlt ==
    {Deg(k) : k \in 0..27} \cup {1, HalfDeg(35) - 1, HalfDeg(35), HalfDeg(35) + 1}

InitSweep ==
    /\ horizon_file \in GlareFiles
    /\ HORIZON_OBSTRUCTIONS \in GlareObstructionLists
    /\ WINDOW_AZIMUTH = Deg(90)
    /\ DefaultBlindConfig
    /\ DefaultSurroundings
    /\ NoCalls

\* analyze_glare(az, alt): the first call at any azimuth, the second at the
\* same azimuth and another altitude, the terrain data and the window fixed.
AnalyzeGlareSweep ==
    /\ ~glare_prev.called
    /\ \E sun_az \in SweepAz, sun_alt \in SweepAlt :
        /\ glare_call.called => sun_az = glare_call.sun_az
        /\ glare_call' = [called |-> TRUE, sun_az |-> sun_az, sun_alt |-> sun_alt,
                          window_az |-> WINDOW_AZIMUTH,
                          ret |-> analyze_glare(sun_az, sun_alt, WINDOW_AZIMUTH)]
        /\ glare_prev' = glare_call
        /\ UNCHANGED <<config_vars, terrain_call, window_call, blind_call,
                       blind_prev, step_call, angle_call, azimuth_call,
                       shortcuts_command, shortcut_call, profile_vars>>

NextSweep == AnalyzeGlareSweep

SpecSweep == InitSweep /\ [][NextSweep]_vars

---------------------------------------------------------------------------
(* Specification of the azimuth tail of sun_position *)

\* The quotient of line 214 in halves, rounding error beyond [-1, 1] included.
CosAzValues == -3..3

\* ha = lst - ra with lst in [0, 360) and ra in (-180, 180]: every 15
\* degrees of (-180, 540), and 0.05 degree beside 0, 180 and 360.
HourAngles ==
    {Deg(15 * k) : k \in -11..35}
        \cup {-1, 1, Deg(180) - 1, Deg(180) + 1, Deg(360) - 1, Deg(360) + 1}

InitAzimuth ==
    /\ horizon_file = [kind |-> "absent", has_horizon |-> FALSE,
                       horizon |-> EmptyDict]
    /\ HORIZON_OBSTRUCTIONS = <<>>
    /\ WINDOW_AZIMUTH = Deg(90)
    /\ DefaultBlindConfig
    /\ DefaultSurroundings
    /\ NoCalls

\* sun_position from line 214 on, for the cos_az and ha the lines above give.
SunPositionAzimuth ==
    /\ ~azimuth_call.called
    /\ \E cos_az \in CosAzValues, ha \in HourAngles :
        /\ azimuth_call' = [called |-> TRUE, cos_az |-> cos_az, ha |-> ha,
                            azimuth |-> sun_azimuth(cos_az, ha)]
        /\ UNCHANGED <<config_vars, terrain_call, window_call, glare_call,
                       blind_call, blind_prev, step_call, glare_prev,
                       angle_call, shortcuts_command, shortcut_call,
                       profile_vars>>

NextAzimuth == SunPositionAzimuth

SpecAzimuth == InitAzimuth /\ [][NextAzimuth]_vars

---------------------------------------------------------------------------
(* Specification of angle_difference *)

\* Angles every 22.5 degrees of [-720, 1080], and 0.05 degree beside 0,
\* 180 and 360.
AngleValues ==
    {HalfDeg(45 * k) : k \in -32..48}
        \cup {-1, 1, Deg(180) - 1, Deg(180) + 1, Deg(360) - 1, Deg(360) + 1}

InitAngle ==
    /\ horizon_file = [kind |-> "absent", has_horizon |-> FALSE,
                       horizon |-> EmptyDict]
    /\ HORIZON_OBSTRUCTIONS = <<>>
    /\ WINDOW_AZIMUTH = Deg(90)
    /\ DefaultBlindConfig
    /\ DefaultSurroundings
    /\ NoCalls

\* angle_difference(a1, a2), and the same call with the arguments swapped.
AngleDifference ==
    /\ ~angle_call.called
    /\ \E a1 \in AngleValues, a2 \in AngleValues :
        /\ angle_call' = [called |-> TRUE, a1 |-> a1, a2 |-> a2,
                          ret |-> angle_difference(a1, a2),
                          ret_swapped |-> angle_difference(a2, a1)]
        /\ UNCHANGED <<config_vars, terrain_call, window_call, glare_call,
                       blind_call, blind_prev, step_call, glare_prev,
                       azimuth_call, shortcuts_command, shortcut_call,
                       profile_vars>>

NextAngle == AngleDifference

SpecAngle == InitAngle /\ [][NextAngle]_vars

---------------------------------------------------------------------------
(* Specification of the blind mapping *)

\* glare_risk values as analyze_glare returns them (tenths): every 5 of
\* [0, 100], and 19.9, 20.1 and 99.9.
RiskValues == {50 * k : k \in 0..20} \cup {199, 201, 999}

\* Thresholds: in order, equal (20/20, 50/50) and reversed (50/20).
ThresholdLowValues == {0, 20, 50}

ThresholdHighValues == {20, 50, 100}

\* Open bounds: min < max, min = max (10/10) and min > max (60/10, 60/50).
MinOpenValues == {0, 10, 60}

MaxOpenValues == {10, 50, 100}

CurveValues == {"0.5", "1.0", "2.0"}

\* Step tables with ascending thresholds: the default one, one whose first
\* threshold is above 0, one with a single entry.
StepTables ==
    { <<<<0, "severe">>, <<45, "high">>, <<60, "moderate">>, <<80, "low">>,
        <<95, "none">>>>,
      <<<<30, "severe">>, <<60, "moderate">>, <<95, "none">>>>,
      <<<<50, "half">>>> }

InitBlind ==
    /\ horizon_file = [kind |-> "absent", has_horizon |-> FALSE,
                       horizon |-> EmptyDict]
    /\ HORIZON_OBSTRUCTIONS = <<>>
    /\ WINDOW_AZIMUTH = Deg(90)
    /\ DAY_BLIND_MIN_OPEN \in MinOpenValues
    /\ DAY_BLIND_MAX_OPEN \in MaxOpenValues
    /\ GLARE_THRESHOLD_LOW \in ThresholdLowValues
    /\ GLARE_THRESHOLD_HIGH \in ThresholdHighValues
    /\ GLARE_RESPONSE_CURVE \in CurveValues
    /\ BLIND_STEPS \in StepTables
    /\ DefaultSurroundings
    /\ NoCalls

\* day_open = calculate_day_blind(glare["glare_risk"]): the first row of the
\* schedule, or the next row once the previous row's step was looked up.  An
\* exception ends the run.
CalculateDayBlind ==
    /\ \/ ~blind_call.called
       \/ blind_call.called /\ step_call.called /\ ~blind_prev.called
    /\ \E glare_risk \in RiskValues :
        /\ blind_call' = BlindCall(glare_risk, calculate_day_blind(glare_risk))
        /\ blind_prev' = blind_call
        /\ step_call' = NoStepCall
        /\ UNCHANGED <<config_vars, terrain_call, window_call, glare_call,
                       helper_vars, profile_vars>>

\* step = get_blind_step(day_open)
GetBlindStep ==
    /\ blind_call.called
    /\ blind_call.outcome = "returned"
    /\ ~step_call.called
    /\ step_call' = [called |-> TRUE, day_open |-> blind_call.ret,
                     ret |-> get_blind_step(blind_call.ret)]
    /\ UNCHANGED <<config_vars, terrain_call, window_call, glare_call,
                   blind_call, blind_prev, helper_vars, profile_vars>>

NextBlind == CalculateDayBlind \/ GetBlindStep

SpecBlind == InitBlind /\ [][NextBlind]_vars

---------------------------------------------------------------------------
(* Specification of the blind actuator *)

\* What running `shortcuts run <name>` does: exit 0, a non-zero exit with or
\* without text on stderr, no answer within 30 s, no such command, and an
\* error of another class.
ShortcutsCommands ==
    { [kind |-> "exit", returncode |-> 0, stderr |-> ""],
      [kind |-> "exit", returncode |-> 1, stderr |-> "denied\n"],
      [kind |-> "exit", returncode |-> 1, stderr |-> ""],
      [kind |-> "exit", returncode |-> 2, stderr |-> " \n"],
      [kind |-> "TimeoutExpired", returncode |-> 0, stderr |-> ""],
      [kind |-> "FileNotFoundError", returncode |-> 0, stderr |-> ""],
      [kind |-> "PermissionError", returncode |-> 0, stderr |-> ""] }

\* Step names: those of the tables, one no table has, and the empty string.
StepNames == {"severe", "high", "moderate", "low", "none", "half", "bogus", ""}

InitShortcut ==
    /\ horizon_file = [kind |-> "absent", has_horizon |-> FALSE,
                       horizon |-> EmptyDict]
    /\ HORIZON_OBSTRUCTIONS = <<>>
    /\ WINDOW_AZIMUTH = Deg(90)
    /\ DAY_BLIND_MIN_OPEN = 10
    /\ DAY_BLIND_MAX_OPEN = 100
    /\ GLARE_THRESHOLD_LOW = 20
    /\ GLARE_THRESHOLD_HIGH = 100
    /\ GLARE_RESPONSE_CURVE = "1.0"
    /\ BLIND_STEPS \in StepTables
    /\ shortcuts_command \in ShortcutsCommands
    /\ ELEVATION = 0
    /\ elevation_service = <<>>
    /\ NoCalls

\* success, message = run_blind_shortcut(step) or (step, dry_run=True)
RunBlindShortcut ==
    /\ ~shortcut_call.called
    /\ \E step \in StepNames, dry_run \in BOOLEAN :
        LET r == run_blind_shortcut(step, dry_run)
        IN  /\ shortcut_call' = [called |-> TRUE, step |-> step,
                                 dry_run |-> dry_run, invoked |-> r.invoked,
                                 outcome |-> r.outcome, success |-> r.success,
                                 message |-> r.message]
            /\ UNCHANGED <<config_vars, terrain_call, window_call, glare_call,
                           blind_call, blind_prev, step_call, glare_prev,
                           angle_call, azimuth_call, shortcuts_command,
                           profile_vars>>

NextShortcut == RunBlindShortcut

SpecShortcut == InitShortcut /\ [][NextShortcut]_vars

---------------------------------------------------------------------------
(* Specification of the horizon builder *)

\* What the API holds for the eight sample points: all different (one
\* unknown), all unknown, flat ground, and a mix.
ElevationMaps ==
    { <<Elevation(20), Elevation(150), Elevation(80), Elevation(300),
        Elevation(0), Elevation(1100), Elevation(76), NoElevation>>,
      <<NoElevation, NoElevation, NoElevation, NoElevation,
        NoElevation, NoElevation, NoElevation, NoElevation>>,
      <<Elevation(0), Elevation(0), Elevation(0), Elevation(0),
        Elevation(0), Elevation(0), Elevation(0), Elevation(0)>>,
      <<NoElevation, Elevation(300), Elevation(80), NoElevation,
        Elevation(20), Elevation(20), NoElevation, Elevation(1100)>> }

\* Observer elevations in feet: sea level and 250 ft (76.2 m).
ObserverElevations == {0, 250}

\* The answers to one query of n locations: a results list of 0..n entries,
\* or one of the three exceptions query_elevations catches.
Responses(n) ==
    {[kind |-> "ok", count |-> c] : c \in 0..n}
        \cup {[kind |-> k, count |-> 0] :
                 k \in {"URLError", "JSONDecodeError", "TimeoutError"}}

InitProfile ==
    /\ horizon_file = [kind |-> "absent", has_horizon |-> FALSE,
                       horizon |-> EmptyDict]
    /\ HORIZON_OBSTRUCTIONS = <<>>
    /\ WINDOW_AZIMUTH = Deg(90)
    /\ DefaultBlindConfig
    /\ shortcuts_command = [kind |-> "exit", returncode |-> 0, stderr |-> ""]
    /\ ELEVATION \in ObserverElevations
    /\ elevation_service \in ElevationMaps
    /\ NoCalls

\* horizon = calculate_horizon_profile(): up to the batching loop.
CalculateHorizonProfile ==
    /\ profile_pc = "idle"
    /\ profile_pc' = "batching"
    /\ batch_i' = 0
    /\ all_elevations' = <<>>
    /\ UNCHANGED <<config_vars, terrain_call, window_call, glare_call,
                   blind_call, blind_prev, step_call, helper_vars, ELEVATION,
                   elevation_service, profile_ret>>

\* One pass of the batching loop: query the batch, extend all_elevations.
QueryBatch ==
    /\ profile_pc = "batching"
    /\ LET batch == SubSeq(sample_points, batch_i + 1,
                           Min(batch_i + BatchSize, Len(sample_points)))
       IN  \E response \in Responses(Len(batch)) :
               all_elevations' = all_elevations \o query_elevations(batch, response)
    /\ IF batch_i + BatchSize < Len(sample_points)
       THEN batch_i' = batch_i + BatchSize /\ profile_pc' = profile_pc
       ELSE batch_i' = batch_i /\ profile_pc' = "batched"
    /\ UNCHANGED <<config_vars, terrain_call, window_call, glare_call,
                   blind_call, blind_prev, step_call, helper_vars, ELEVATION,
                   elevation_service, profile_ret>>

\* The loops over the azimuths and the points, and the return.
BuildHorizon ==
    /\ profile_pc = "batched"
    /\ profile_ret' = build_horizon
    /\ profile_pc' = "done"
    /\ UNCHANGED <<config_vars, terrain_call, window_call, glare_call,
                   blind_call, blind_prev, step_call, helper_vars, ELEVATION,
                   elevation_service, all_elevations, batch_i>>

NextProfile == CalculateHorizonProfile \/ QueryBatch \/ BuildHorizon

SpecProfile == InitProfile /\ [][NextProfile]_vars

---------------------------------------------------------------------------
(* Properties of analyze_glare, checked under SpecGlare *)

\* What the two tests of analyze_glare answer for the call that was made.
GlareBlocked == is_sun_blocked_by_terrain(glare_call.sun_az, glare_call.sun_alt)

GlareCanEnter ==
    can_sun_enter_window(glare_call.sun_az, glare_call.sun_alt,
                         glare_call.window_az, Deg(DefaultFov)).can_enter

GlareShortCircuit(status) ==
    /\ glare_call.ret.status = status
    /\ glare_call.ret.glare_risk = 0
    /\ glare_call.ret.can_enter_window = FALSE
    /\ glare_call.ret.recommendation = "blinds_open"

\* C1: analyze_glare applies its short-circuit policy in strict order, first
\* match wins: sun_alt <= 0 gives "night" whatever terrain and window say;
\* otherwise a terrain-blocked sun gives "blocked_by_terrain" whatever the
\* window says; otherwise a sun that cannot enter the window gives
\* "no_direct_sun"; each with glare_risk 0, can_enter_window false and
\* recommendation "blinds_open".
C1_ShortCircuitOrder ==
    glare_call.called =>
        /\ glare_call.sun_alt <= 0 => GlareShortCircuit("night")
        /\ glare_call.sun_alt > 0 /\ GlareBlocked
              => GlareShortCircuit("blocked_by_terrain")
        /\ glare_call.sun_alt > 0 /\ ~GlareBlocked /\ ~GlareCanEnter
              => GlareShortCircuit("no_direct_sun")

\* C1 witness: a sun above the horizon that terrain blocks and that is also
\* outside the window's field of view was reported as blocked by terrain.
C1_Witness ==
    /\ glare_call.called
    /\ glare_call.sun_alt > 0
    /\ GlareBlocked
    /\ ~GlareCanEnter
    /\ glare_call.ret.status = "blocked_by_terrain"

\* C2: the glare_risk of every result of analyze_glare lies in [0, 100]
\* (0..1000 tenths).
C2_RiskInRange ==
    glare_call.called =>
        glare_call.ret.glare_risk >= 0 /\ glare_call.ret.glare_risk <= 1000

\* C2 witness: a boosted risk (both factors above 0.5, sun not dead centre)
\* whose x 1.3 product exceeds 100 was returned as 100.
C2_Witness ==
    /\ glare_call.called
    /\ glare_call.ret.can_enter_window
    /\ glare_call.sun_az # glare_call.window_az
    /\ 2 * altitude_factor(glare_call.sun_alt) > FactorDen
    /\ 13 * 50 * (altitude_factor(glare_call.sun_alt)
                  + entry_factor(angle_difference(glare_call.sun_az,
                                                  glare_call.window_az)))
         > 100 * RiskDen
    /\ glare_call.ret.glare_risk = 1000

\* C4: on the non-short-circuit path status and recommendation agree with
\* the returned glare_risk: "high_glare"/"blinds_closed" exactly when it is
\* above 60, "moderate_glare"/"blinds_partial" exactly when it is above 35
\* and at most 60, "low_glare"/"blinds_open" otherwise; a returned 35 or 60
\* is in the lower bucket.
C4_StatusAgreesWithReturnedRisk ==
    glare_call.called /\ glare_call.ret.can_enter_window =>
        LET r == glare_call.ret
        IN  /\ r.status = "high_glare" <=> r.glare_risk > 600
            /\ r.status = "moderate_glare"
                  <=> (r.glare_risk > 350 /\ r.glare_risk <= 600)
            /\ r.status = "low_glare" <=> r.glare_risk <= 350
            /\ r.recommendation = "blinds_closed" <=> r.glare_risk > 600
            /\ r.recommendation = "blinds_partial"
                  <=> (r.glare_risk > 350 /\ r.glare_risk <= 600)
            /\ r.recommendation = "blinds_open" <=> r.glare_risk <= 350

---------------------------------------------------------------------------
(* Properties of is_sun_blocked_by_terrain, checked under SpecTerrain *)

\* The multiple of 5 degrees nearest to sun_az (a tie goes to the even
\* multiple, as round() does), with 360 wrapped to 0.
NearestBucket(sun_az) ==
    (CHOOSE b \in {5 * k : k \in 0..72} :
        /\ 2 * Abs(sun_az - Deg(b)) <= Deg(5)
        /\ 2 * Abs(sun_az - Deg(b)) = Deg(5) => (b \div 5) % 2 = 0) % 360

\* A horizon profile is present and holds the bucket of the call's azimuth.
BucketInProfile ==
    /\ horizon_file.kind = "json"
    /\ horizon_file.has_horizon
    /\ Str(NearestBucket(terrain_call.sun_az)) \in DOMAIN horizon_file.horizon

\* Obstruction i holds the call's azimuth in its range (which wraps when
\* az_start > az_end) and its min_altitude is above the call's altitude.
ObstructionBlocks(i) ==
    LET az_start == HORIZON_OBSTRUCTIONS[i][1]
        az_end == HORIZON_OBSTRUCTIONS[i][2]
        min_alt == HORIZON_OBSTRUCTIONS[i][3]
        az == terrain_call.sun_az
    IN  /\ terrain_call.sun_alt < min_alt
        /\ \/ az_start <= az_end /\ az_start <= az /\ az <= az_end
           \/ az_start > az_end /\ (az >= az_start \/ az <= az_end)

\* C5: when a horizon profile is present and holds the bucket nearest to
\* sun_az, is_sun_blocked_by_terrain returns true iff sun_alt is below the
\* stored horizon angle, whatever the manual obstructions are.
C5_ProfileDecides ==
    terrain_call.called /\ BucketInProfile =>
        terrain_call.ret =
            (terrain_call.sun_alt
               < horizon_file.horizon[Str(NearestBucket(terrain_call.sun_az))])

\* C5 witness: the profile held the bucket and said "not blocked" although a
\* manual obstruction would have blocked the same sun.
C5_Witness ==
    /\ terrain_call.called
    /\ BucketInProfile
    /\ terrain_call.ret = FALSE
    /\ \E i \in 1..Len(HORIZON_OBSTRUCTIONS) : ObstructionBlocks(i)

\* C6: with no horizon profile loaded, or the bucket missing from it,
\* is_sun_blocked_by_terrain returns true iff at least one manual
\* obstruction holds sun_az in its (possibly wrapping) range with sun_alt
\* below its min_altitude, wherever that obstruction stands in the list.
C6_ObstructionFallback ==
    terrain_call.called /\ ~BucketInProfile =>
        terrain_call.ret =
            (\E i \in 1..Len(HORIZON_OBSTRUCTIONS) : ObstructionBlocks(i))

\* C6 witness: a non-empty profile lacked the bucket, and the sun was blocked
\* by a wrapping obstruction that is second in the list, after one that does
\* not block.
C6_Witness ==
    /\ terrain_call.called
    /\ horizon_file.kind = "json"
    /\ DOMAIN horizon_file.horizon # {}
    /\ ~BucketInProfile
    /\ terrain_call.ret = TRUE
    /\ Len(HORIZON_OBSTRUCTIONS) = 2
    /\ ~ObstructionBlocks(1)
    /\ ObstructionBlocks(2)
    /\ HORIZON_OBSTRUCTIONS[2][1] > HORIZON_OBSTRUCTIONS[2][2]

---------------------------------------------------------------------------
(* Properties of can_sun_enter_window, checked under SpecWindow *)

\* The shorter of the two arcs between azimuths a and b of [0, 360].
ShortestArc(a, b) ==
    LET arcs == {Abs(a - b + k * Deg(360)) : k \in -1..1}
    IN  CHOOSE d \in arcs : \A e \in arcs : d <= e

\* C7: can_sun_enter_window returns (False, 180) whenever sun_alt <= 0;
\* otherwise entry_angle is the shortest-arc distance between sun_az and
\* window_az and can_enter holds iff entry_angle <= window_fov / 2.
C7_WindowEntry ==
    window_call.called =>
        IF window_call.sun_alt <= 0
        THEN ~window_call.can_enter /\ window_call.entry_angle = Deg(180)
        ELSE /\ window_call.entry_angle
                  = ShortestArc(window_call.sun_az, window_call.window_az)
             /\ window_call.can_enter
                  <=> 2 * window_call.entry_angle <= window_call.window_fov

\* C7 witness: a sun above the horizon exactly 70 degrees from the window,
\* the shorter arc running across north, enters the default field of view.
C7_Witness ==
    /\ window_call.called
    /\ window_call.sun_alt > 0
    /\ window_call.window_fov = Deg(DefaultFov)
    /\ Abs(window_call.sun_az - window_call.window_az) > Deg(180)
    /\ window_call.entry_angle = Deg(70)
    /\ window_call.can_enter

---------------------------------------------------------------------------
(* Properties of calculate_day_blind and get_blind_step, under SpecBlind *)

\* The open bounds of a Configuration: 0 <= min <= max <= 100.
OpenBoundsValid ==
    /\ 0 <= DAY_BLIND_MIN_OPEN
    /\ DAY_BLIND_MIN_OPEN <= DAY_BLIND_MAX_OPEN
    /\ DAY_BLIND_MAX_OPEN <= 100

\* C3: with 0 <= DAY_BLIND_MIN_OPEN <= DAY_BLIND_MAX_OPEN <= 100, a value
\* returned by calculate_day_blind is an integer of
\* [DAY_BLIND_MIN_OPEN, DAY_BLIND_MAX_OPEN], on the early return and on the
\* interpolation path.
C3_DayOpenInBounds ==
    blind_call.called /\ blind_call.outcome = "returned" /\ OpenBoundsValid =>
        blind_call.ret \in DAY_BLIND_MIN_OPEN..DAY_BLIND_MAX_OPEN

\* C3 witness: the interpolation path, with a risk above threshold_high and
\* a non-linear curve, returned the lower bound of a proper range.
C3_Witness ==
    /\ blind_call.called
    /\ blind_call.outcome = "returned"
    /\ OpenBoundsValid
    /\ DAY_BLIND_MIN_OPEN < DAY_BLIND_MAX_OPEN
    /\ GLARE_THRESHOLD_LOW < GLARE_THRESHOLD_HIGH
    /\ blind_call.glare_risk > 10 * GLARE_THRESHOLD_HIGH
    /\ GLARE_RESPONSE_CURVE = "0.5"
    /\ blind_call.ret = DAY_BLIND_MIN_OPEN

\* C8: for a fixed configuration calculate_day_blind is non-increasing in
\* glare_risk: of two calls with r1 <= r2, both yield a value and the first
\* value is at least the second.
C8_Monotone ==
    blind_prev.called /\ blind_call.called /\ OpenBoundsValid
      /\ blind_prev.glare_risk <= blind_call.glare_risk =>
        /\ blind_prev.outcome = "returned"
        /\ blind_call.outcome = "returned"
        /\ blind_prev.ret >= blind_call.ret

\* Where both calls return, the order holds (the part of C8 the
\* ZeroDivisionError of C10 leaves standing).
MonotoneWhereReturned ==
    blind_prev.called /\ blind_call.called /\ OpenBoundsValid
      /\ blind_prev.outcome = "returned" /\ blind_call.outcome = "returned"
      /\ blind_prev.glare_risk <= blind_call.glare_risk =>
        blind_prev.ret >= blind_call.ret

\* The entries of BLIND_STEPS whose threshold is at most the open percentage
\* that was looked up.
StepMatches == {i \in 1..Len(BLIND_STEPS) : BLIND_STEPS[i][1] <= step_call.day_open}

\* The name get_blind_step returned is that of the matching entry with the
\* highest threshold.
ReturnedHighestMatch ==
    \E i \in StepMatches :
        /\ step_call.ret = BLIND_STEPS[i][2]
        /\ \A j \in StepMatches : BLIND_STEPS[j][1] <= BLIND_STEPS[i][1]

\* C9 as stated: for every open percentage calculate_day_blind produced, the
\* name returned by get_blind_step belongs to the entry with the highest
\* threshold that is <= the open percentage, also when the open percentage is
\* below every threshold of the table.
C9_StepIsHighestMatch == step_call.called => ReturnedHighestMatch

\* C9 amended: when some threshold is <= the open percentage, the returned
\* name is that of the entry with the highest such threshold; when the open
\* percentage is below every threshold, the first entry's name is returned,
\* whose threshold is above the open percentage.
C9_StepIsHighestMatchOrDefault ==
    step_call.called =>
        IF StepMatches # {} THEN ReturnedHighestMatch
        ELSE /\ step_call.ret = BLIND_STEPS[1][2]
             /\ BLIND_STEPS[1][1] > step_call.day_open

\* C9 witness: an open percentage below every threshold of a table of
\* several entries got the first entry's name.
C9_Witness ==
    /\ step_call.called
    /\ StepMatches = {}
    /\ Len(BLIND_STEPS) > 1
    /\ step_call.ret = BLIND_STEPS[1][2]

\* C10: for every glare_risk of [0, 100] and every configuration with
\* thresholds and open bounds in [0, 100], calculate_day_blind returns a value
\* and raises nothing.
C10_NeverRaises == blind_call.called => blind_call.outcome = "returned"

---------------------------------------------------------------------------
(* Properties of the altitude sweep, checked under SpecSweep *)

\* The two calls of the sweep, the one at the lower altitude first.
SweepLow == IF glare_call.sun_alt <= glare_prev.sun_alt THEN glare_call ELSE glare_prev

SweepHigh == IF glare_call.sun_alt <= glare_prev.sun_alt THEN glare_prev ELSE glare_call

\* Two calls at one azimuth whose entry angle is below 60 degrees, at
\* altitudes 0 < a1 <= a2 <= 25.
SweepInBand ==
    /\ glare_prev.called
    /\ glare_call.called
    /\ angle_difference(glare_call.sun_az, glare_call.window_az) < Deg(60)
    /\ 0 < SweepLow.sun_alt
    /\ SweepHigh.sun_alt <= Deg(25)

\* C11 as stated: with the azimuth, the window and the terrain data fixed
\* and the entry angle below 60 degrees, the returned glare_risk at the lower
\* of two altitudes of (0, 25] is never below the one at the higher altitude.
C11_RiskNeverDecreases ==
    SweepInBand => SweepLow.ret.glare_risk >= SweepHigh.ret.glare_risk

\* C11 amended: the same, for a lower altitude at which the terrain does not
\* block the sun (a blocked sun returns glare_risk 0 whatever the altitude).
C11_RiskNeverDecreasesUnblocked ==
    (SweepInBand /\ SweepLow.ret.status # "blocked_by_terrain")
        => SweepLow.ret.glare_risk >= SweepHigh.ret.glare_risk

\* The sweep crosses altitude_factor = 0.5 with entry_factor above 0.5: the
\* boost is off at the higher altitude and on at the lower one, and the risk
\* rises.
C11_Witness ==
    /\ SweepInBand
    /\ SweepLow.ret.status # "blocked_by_terrain"
    /\ 2 * entry_factor(angle_difference(glare_call.sun_az, glare_call.window_az))
            > FactorDen
    /\ 2 * altitude_factor(SweepHigh.sun_alt) <= FactorDen
    /\ 2 * altitude_factor(SweepLow.sun_alt) > FactorDen
    /\ SweepLow.ret.glare_risk > SweepHigh.ret.glare_risk

---------------------------------------------------------------------------
(* calculate_day_blind at and below GLARE_THRESHOLD_LOW, under SpecBlind *)

\* A call with glare_risk <= GLARE_THRESHOLD_LOW in a Configuration with
\* valid open bounds (glare_risk is a count of tenths).
AtOrBelowLow ==
    /\ blind_call.called
    /\ OpenBoundsValid
    /\ blind_call.glare_risk <= 10 * GLARE_THRESHOLD_LOW

\* C12: for every configuration and every glare_risk <= GLARE_THRESHOLD_LOW,
\* calculate_day_blind returns exactly DAY_BLIND_MAX_OPEN: below the threshold
\* by the early return, at the threshold through the interpolation.
C12_MaxOpenUpToLow ==
    AtOrBelowLow =>
        blind_call.outcome = "returned" /\ blind_call.ret = DAY_BLIND_MAX_OPEN

\* What C10's ZeroDivisionError leaves standing of C12: a call that returns
\* returns DAY_BLIND_MAX_OPEN, and only GLARE_THRESHOLD_HIGH equal to the
\* glare_risk makes the call raise.
MaxOpenUpToLowWhereReturned ==
    AtOrBelowLow =>
        IF blind_call.outcome = "returned"
        THEN blind_call.ret = DAY_BLIND_MAX_OPEN
        ELSE /\ GLARE_THRESHOLD_HIGH = GLARE_THRESHOLD_LOW
             /\ blind_call.glare_risk = 10 * GLARE_THRESHOLD_LOW

---------------------------------------------------------------------------
(* The glare-risk formula, checked under SpecGlare *)

\* The call went past the three short-circuits.
GlareFullPath == glare_call.called /\ glare_call.ret.can_enter_window

\* The entry angle of the call: the shortest arc from window to sun.
GlareEntry == angle_difference(glare_call.sun_az, glare_call.window_az)

\* The factors as C13 states them, in sixtieths of 1/Unit:
\* 1 below 10 degrees, (25 - alt) / 15 on [10, 25), 0 from 25 degrees on.
StatedAltitudeFactor ==
    IF glare_call.sun_alt < 10 * Unit THEN 60 * Unit
    ELSE IF glare_call.sun_alt < 25 * Unit
    THEN ((25 * Unit - glare_call.sun_alt) * 60) \div 15
    ELSE 0

\* (60 - entry) / 60 below 60 degrees, else 0.
StatedEntryFactor ==
    IF GlareEntry < 60 * Unit THEN 60 * Unit - GlareEntry ELSE 0

\* 100 * (0.5 * altitude_factor + 0.5 * entry_factor) in thousandths of
\* 1/(60 * Unit), times 1.3 and capped at 100 exactly when both factors are
\* strictly above 0.5.
StatedRisk ==
    LET plain == 1000 * 50 * (StatedAltitudeFactor + StatedEntryFactor)
    IN  IF StatedAltitudeFactor > 30 * Unit /\ StatedEntryFactor > 30 * Unit
        THEN Min(1000 * 100 * 60 * Unit, (plain * 13) \div 10)
        ELSE plain

\* C13: past the short-circuits the returned glare_risk is the stated
\* formula (rounded to one decimal as the dict holds it), and entry angle 0
\* at an altitude below 10 degrees gives glare_risk 100 and "high_glare".
C13_RiskFormula ==
    GlareFullPath =>
        /\ glare_call.ret.glare_risk = PyRound(10 * StatedRisk, 1000 * 60 * Unit)
        /\ (GlareEntry = 0 /\ glare_call.sun_alt < Deg(10)) =>
              /\ glare_call.ret.glare_risk = 1000
              /\ glare_call.ret.status = "high_glare"

\* The sun straight in front of the window, below 10 degrees: risk 100.
C13_Witness ==
    /\ GlareFullPath
    /\ GlareEntry = 0
    /\ glare_call.sun_alt < Deg(10)
    /\ glare_call.ret.glare_risk = 1000
    /\ glare_call.ret.status = "high_glare"

\* altitude_factor exactly 0.5 with entry_factor above 0.5: no boost.
BoostOffAtHalf ==
    /\ GlareFullPath
    /\ 2 * glare_call.sun_alt = Deg(35)
    /\ GlareEntry = Deg(10)
    /\ glare_call.ret.glare_risk = 667

---------------------------------------------------------------------------
(* The azimuth of sun_position, checked under SpecAzimuth *)

\* C14: the azimuth sun_position returns lies in [0, 360) for every hour
\* angle and every clamped cosine, cos_az = 1 with sin(ha) > 0 included.
C14_AzimuthBelow360 ==
    azimuth_call.called =>
        0 <= azimuth_call.azimuth /\ azimuth_call.azimuth < Deg(360)

\* The azimuth lies in [0, 360], and it is 360 exactly when the clamped
\* cosine is 1 and sin(ha) is positive.
AzimuthAtMost360 ==
    azimuth_call.called =>
        /\ 0 <= azimuth_call.azimuth
        /\ azimuth_call.azimuth <= Deg(360)
        /\ azimuth_call.azimuth = Deg(360)
              <=> (azimuth_call.cos_az >= 2 /\ sin_positive(azimuth_call.ha))

---------------------------------------------------------------------------
(* angle_difference, checked under SpecAngle *)

\* C18: angle_difference is symmetric and its result lies in [0, 180], for
\* arguments outside [0, 360) and differences beyond 360 degrees as well.
C18_SymmetricAndBounded ==
    angle_call.called =>
        /\ angle_call.ret = angle_call.ret_swapped
        /\ 0 <= angle_call.ret
        /\ angle_call.ret <= Deg(180)

\* A negative first argument more than 360 degrees away from the second:
\* -45 and 405 degrees are 90 degrees apart, in both orders.
C18_Witness ==
    /\ angle_call.called
    /\ angle_call.a1 < 0
    /\ angle_call.a2 - angle_call.a1 > Deg(360)
    /\ angle_call.ret = Deg(90)
    /\ angle_call.ret_swapped = Deg(90)

---------------------------------------------------------------------------
(* Absent and empty horizon profiles, checked under SpecTerrain *)

\* load_horizon_profile returned None: no file, or a file that cannot be read.
ProfileAbsent == load_horizon_profile.is_none

\* The file is there and its horizon mapping is {}.
ProfilePresentEmpty ==
    ~load_horizon_profile.is_none /\ DOMAIN load_horizon_profile.dict = {}

\* C19: an absent profile falls through to the manual obstructions, and an
\* empty-but-present profile is not handled as if it were absent: a present
\* profile that records nothing blocks nothing, whatever the manual
\* obstructions say.
C19_EmptyProfileNotAbsent ==
    terrain_call.called =>
        /\ ProfileAbsent =>
              terrain_call.ret =
                  (\E i \in 1..Len(HORIZON_OBSTRUCTIONS) : ObstructionBlocks(i))
        /\ ProfilePresentEmpty => terrain_call.ret = FALSE

\* What the code does: an empty-but-present profile is handled exactly as an
\* absent one, the manual obstructions decide.
EmptyProfileHandledAsAbsent ==
    terrain_call.called /\ (ProfileAbsent \/ ProfilePresentEmpty) =>
        terrain_call.ret =
            (\E i \in 1..Len(HORIZON_OBSTRUCTIONS) : ObstructionBlocks(i))

---------------------------------------------------------------------------
(* run_blind_shortcut, checked under SpecShortcut *)

\* The step that was passed is the name of an entry of BLIND_STEPS.
StepIsValid == \E i \in 1..Len(BLIND_STEPS) : BLIND_STEPS[i][2] = shortcut_call.step

\* The command ran to the end and reported success.
CommandSucceeded ==
    shortcuts_command.kind = "exit" /\ shortcuts_command.returncode = 0

\* C15: run_blind_shortcut never raises; an unknown step, a non-zero exit, a
\* timeout, a missing command and any other exception give success = False;
\* the command is invoked only for a valid step without dry_run, and a dry
\* run with a valid step returns True without invoking it.
C15_NeverRaisesInvokesWhenValid ==
    shortcut_call.called =>
        /\ shortcut_call.outcome = "returned"
        /\ ~StepIsValid => ~shortcut_call.success
        /\ shortcut_call.invoked <=> (StepIsValid /\ ~shortcut_call.dry_run)
        /\ shortcut_call.invoked => (shortcut_call.success <=> CommandSucceeded)
        /\ (StepIsValid /\ shortcut_call.dry_run) => shortcut_call.success

\* The command was invoked and raised an exception that is neither a timeout
\* nor a missing command: the call returned success = False.
C15_Witness ==
    /\ shortcut_call.called
    /\ shortcut_call.invoked
    /\ shortcuts_command.kind = "PermissionError"
    /\ shortcut_call.outcome = "returned"
    /\ ~shortcut_call.success

---------------------------------------------------------------------------
(* calculate_horizon_profile, checked under SpecProfile *)

\* The batching loop is over.
BatchingOver == profile_pc \in {"batched", "done"}

\* C16: after the batching loop all_elevations is as long as sample_points
\* and all_elevations[i] is the lookup result of sample_points[i], or None,
\* whatever each batch's outcome was (answer, failure, short results list).
C16_ElevationsAligned ==
    BatchingOver =>
        /\ Len(all_elevations) = Len(sample_points)
        /\ \A i \in 1..Len(sample_points) :
              all_elevations[i] \in {elevation_service[sample_points[i]], NoElevation}

\* What the code does keep: the list is never longer than sample_points,
\* and when no batch came back short it is aligned.
AlignedWhenComplete ==
    BatchingOver =>
        /\ Len(all_elevations) <= Len(sample_points)
        /\ Len(all_elevations) = Len(sample_points) =>
              \A i \in 1..Len(sample_points) :
                  all_elevations[i]
                      \in {elevation_service[sample_points[i]], NoElevation}

\* The sample points of one azimuth whose elevation is known.
KnownPoints(azimuth) ==
    {i \in 1..Len(point_info) :
        point_info[i][1] = azimuth /\ ~all_elevations[i].is_none}

\* atan2(elev - observer_elev_m, dist_m) of a sample point, thousandths of a
\* degree.
PointAngle(i) ==
    atan2_degrees(10 * all_elevations[i].m - observer_elev_m, 100 * point_info[i][2])

\* The largest angle over the known points of an azimuth, floored at 0; 0
\* when none is known; to one decimal, as the profile holds it (tenths).
StatedHorizon(azimuth) ==
    LET angles == {PointAngle(i) : i \in KnownPoints(azimuth)}
        top == IF angles = {} THEN 0
               ELSE CHOOSE a \in angles : \A b \in angles : b <= a
    IN  PyRound(IF top < 0 THEN 0 ELSE top, 100)

\* The profile has one entry per bucket 0, step, ... below 360, never
\* negative, equal to the stated horizon of the bucket.
ProfileAsStated ==
    /\ DOMAIN profile_ret.horizon
          = {Str(az) : az \in {a \in 0..359 : a % AzimuthStep = 0}}
    /\ \A az \in {a \in 0..359 : a % AzimuthStep = 0} :
          /\ profile_ret.horizon[Str(az)] >= 0
          /\ profile_ret.horizon[Str(az)] = StatedHorizon(az)

\* C17: calculate_horizon_profile returns exactly one entry per azimuth
\* bucket, never negative, the largest atan2 angle over the distances with a
\* known elevation floored at 0, and 0 for a bucket with none known.
C17_ProfilePerBucket ==
    profile_pc = "done" =>
        profile_ret.outcome = "returned" /\ ProfileAsStated

\* What C16's misalignment leaves standing of C17: a profile that is
\* returned is as stated, and the call raises only when all_elevations came
\* out shorter than sample_points.
ProfileAsStatedWhereReturned ==
    profile_pc = "done" =>
        IF profile_ret.outcome = "returned"
        THEN ProfileAsStated
        ELSE Len(all_elevations) < Len(sample_points)

=============================================================================
